---- MODULE Spec2Model ----
(***************************************************************************)
(* The live transaction feed of Alpha-Scope                                *)
(* (src/src/components/TransactionFeed.tsx): the block poller of the       *)
(* useEffect, the per-hash enrichment of processTransaction, the capped    *)
(* feed buffer of setTransactions and the pause/resume handler.            *)
(*                                                                         *)
(* One step of the model is one run of JavaScript between two suspension   *)
(* points (an awaited RPC reply, the 100 ms pacing timer, the 2 s interval *)
(* timer, a click, a visibilitychange event, a React commit).              *)
(***************************************************************************)
EXTENDS Integers, Sequences, FiniteSets, TLC

\* ------------------------------------------------------------------ bounds

\* Capacity of the feed (100 in the source), scaled down so that the
\* truncation happens with the few hashes of the model.
TRANSACTIONS_PER_PAGE == 2

\* Batch size (5 in the source), scaled down so that a block of the model
\* is split into more than one batch.
MAX_CONCURRENT_PROCESSING == 2

\* Highest block number the chain reports as its head.
MaxHead == 2

\* Highest value of the wall clock (new Date()).
MaxTime == 1

\* Highest quantity in a gas field of a transaction or a receipt.
MaxQty == 3

\* ------------------------------------------------------------- the chain

Hashes == {"a", "b", "c"}

\* The calls of pollForNewBlocks that may be in flight at once.
Calls == {1, 2}

\* block.transactions of each block of the chain.
BlockTxs(b) ==
    CASE b = 1 -> <<"a", "b", "c">>
      [] OTHER -> <<>>

\* null of `lastBlockNumber: number | null` (no block number is negative).
Null == 0 - 1

NoError == "null"
ErrMsg == "Failed to fetch blocks"

VARIABLES
    transactions,        \* useState<Transaction[]>: the feed buffer
    pausedTransactions,  \* useState<Transaction[]>: the snapshot
    isPaused,            \* useState(false)
    isLoading,           \* useState(true)
    error,               \* useState<string | null>
    processingTxs,       \* useRef<Set<string>>: hashes being processed
    inflight,            \* per hash, the processTransaction calls awaiting
                         \* their transaction/receipt fetch pair
    effActive,           \* an effect closure is installed (interval running)
    effLoading,          \* isLoading as captured by the current closure
    effDirty,            \* isLoading changed since the effect last ran
    lastBlockNumber,     \* `let lastBlockNumber` of the current closure
    isPageVisible,       \* `let isPageVisible` of the current closure
    docHidden,           \* document.hidden
    tasks,               \* the calls of pollForNewBlocks in flight
    clock,               \* the wall clock
    hOp,                 \* the last operation on the buffer
    hPre,                \* the buffer before it
    hArg,                \* the hash it upserted
    hFrozen,             \* the buffer at the last freeze
    hFresh,              \* the records upserted since the last freeze
    hClean,              \* they had distinct hashes, none in hFrozen
    arg,                 \* the input of a function applied on its own
    out                  \* its result

vars == <<transactions, pausedTransactions, isPaused, isLoading, error,
          processingTxs, inflight, effActive, effLoading, effDirty,
          lastBlockNumber, isPageVisible, docHidden, tasks, clock,
          hOp, hPre, hArg, hFrozen, hFresh, hClean, arg, out>>

hist == <<hOp, hPre, hArg, hFrozen, hFresh, hClean>>

pure == <<arg, out>>

\* No function was applied yet.
Nothing == [fn |-> "none"]

\* ------------------------------------------------------- pure functions

Min(a, b) == IF a < b THEN a ELSE b

Take(s, n) == SubSeq(s, 1, Min(n, Len(s)))

HashesOf(s) == {s[i].hash : i \in 1..Len(s)}

NoDup(s) == \A i, j \in 1..Len(s) : i # j => s[i].hash # s[j].hash

\* prev.filter(t => t.hash !== h)
Without(prev, h) == SelectSeq(prev, LAMBDA t : t.hash # h)

\* Upsert without the filter.
Upsert_NoFilter(prev, newTx) ==
    Take(<<newTx>> \o prev, TRANSACTIONS_PER_PAGE)

\* Upsert pushing the record to the end.
Upsert_Append(prev, newTx) ==
    Take(Without(prev, newTx.hash) \o <<newTx>>, TRANSACTIONS_PER_PAGE)

\* Upsert clearing the buffer.
Upsert_Clear(prev, newTx) == <<newTx>>

\* Upsert dropping the record while the feed is paused.
Upsert_NotWhilePaused(prev, newTx) ==
    IF isPaused THEN prev
    ELSE Take(<<newTx>> \o Without(prev, newTx.hash), TRANSACTIONS_PER_PAGE)

\* The updater of setTransactions in processTransaction.
Upsert(prev, newTx) ==
    Take(<<newTx>> \o Without(prev, newTx.hash), TRANSACTIONS_PER_PAGE)

\* Array.from(new Map(all.map(tx => [tx.hash, tx])).values()): a key keeps
\* the position of its first occurrence and the value of its last.
LastWith(all, h) ==
    all[CHOOSE i \in 1..Len(all) :
            /\ all[i].hash = h
            /\ \A j \in (i + 1)..Len(all) : all[j].hash # h]

RECURSIVE UniqueFrom(_, _)
UniqueFrom(all, i) ==
    IF i > Len(all) THEN <<>>
    ELSE IF \E j \in 1..(i - 1) : all[j].hash = all[i].hash
         THEN UniqueFrom(all, i + 1)
         ELSE <<LastWith(all, all[i].hash)>> \o UniqueFrom(all, i + 1)

UniqueByHash(all) == UniqueFrom(all, 1)

\* Array.prototype.sort with (a, b) => b.timestamp - a.timestamp: stable,
\* descending by timestamp.
RECURSIVE InsertDesc(_, _)
InsertDesc(sorted, x) ==
    IF sorted = <<>> THEN <<x>>
    ELSE IF Head(sorted).ts >= x.ts
         THEN <<Head(sorted)>> \o InsertDesc(Tail(sorted), x)
         ELSE <<x>> \o sorted

\* The sort leaving the list as it is.
SortDesc_None(s) == s

RECURSIVE SortDesc(_)
SortDesc(s) ==
    IF s = <<>> THEN <<>>
    ELSE InsertDesc(SortDesc(SubSeq(s, 1, Len(s) - 1)), s[Len(s)])

\* ThawMerge keeping only what came in during the pause.
ThawMerge_OnlyNew(paused, prev) ==
    Take(SortDesc(SelectSeq(prev, LAMBDA t : t.hash \notin HashesOf(paused))),
         TRANSACTIONS_PER_PAGE)

\* ThawMerge without the sort.
ThawMerge_NoSort(paused, prev) ==
    Take(UniqueByHash(paused \o prev), TRANSACTIONS_PER_PAGE)

\* ThawMerge with the snapshot's record replacing the live one.
ThawMerge_SnapshotWins(paused, prev) ==
    Take(SortDesc(UniqueByHash(prev \o paused)), TRANSACTIONS_PER_PAGE)

\* The updater of setTransactions in handlePauseToggle (unpausing).
ThawMerge(paused, prev) ==
    Take(SortDesc(UniqueByHash(paused \o prev)), TRANSACTIONS_PER_PAGE)

\* txBatches without the split.
Batches_Whole(txs) == IF txs = <<>> THEN <<>> ELSE <<txs>>

\* txBatches: slices of MAX_CONCURRENT_PROCESSING hashes.
RECURSIVE Batches(_)
Batches(txs) ==
    IF txs = <<>> THEN <<>>
    ELSE <<Take(txs, MAX_CONCURRENT_PROCESSING)>>
         \o Batches(SubSeq(txs, MAX_CONCURRENT_PROCESSING + 1, Len(txs)))

SeqToSet(s) == {s[i] : i \in 1..Len(s)}

\* ---------------------------------------------------- pollForNewBlocks

\* A call of pollForNewBlocks in flight:
\*   pc        the await it is suspended at: "head" (getBlock("latest")),
\*             "block" (getBlock(blockNum)), "batch" (Promise.all of a
\*             batch), "delay" (the 100 ms timeout)
\*   live      isSubscribed of its closure
\*   ld        isLoading as its closure captured it
\*   mode      "boot" (lines 124-158) or "gap" (lines 161-187)
\*   head      currentBlockNumber
\*   from      lastBlockNumber when the range was computed
\*   todo      the block numbers the loop has yet to visit, the current first
\*   rest      the batches of the current block not yet dispatched
\*   awaiting  the calls of processTransaction the batch waits for
\*   fetched   the block numbers whose getBlock the call issued, in order
\*   skipped   those of them whose getBlock threw or returned nothing
Blank == [pc |-> "head", live |-> FALSE, ld |-> FALSE, mode |-> "none",
          head |-> 0, from |-> Null, todo |-> <<>>, rest |-> <<>>,
          awaiting |-> {}, fetched |-> <<>>, skipped |-> {}]

HasFreeSlot == Len(tasks) < Cardinality(Calls)

\* The loop moves on to its next element (nothing is left to visit in a call
\* whose closure was cleaned up).
Rest(s) == IF s = <<>> THEN <<>> ELSE Tail(s)

Remove(tk, t) == SubSeq(tk, 1, t - 1) \o SubSeq(tk, t + 1, Len(tk))

\* `!isSubscribed || isPaused || !isPageVisible` negated, for the closure of
\* task record r. isPaused is the closure's constant false; a closure that
\* was cleaned up has isSubscribed = false.
Active(r) == r.live /\ isPageVisible

\* A call of pollForNewBlocks that passed the guard of line 108 and awaits
\* the head block; ld is the isLoading its closure captured.
NewTask(ld) == [Blank EXCEPT !.live = TRUE, !.ld = ld]

\* processTransaction without its guard.
ShouldProcess_Always(h, set) == TRUE

\* if (!processingTxs.current.has(txHash)) of processTransaction.
ShouldProcess(h, set) == h \notin set

\* batch.map(txHash => processTransaction(txHash)) up to the first await of
\* each call: the hashes that pass the guard, given the set before.
RECURSIVE Dispatched(_, _)
Dispatched(batch, set) ==
    IF batch = <<>> THEN {}
    ELSE IF ShouldProcess(Head(batch), set)
         THEN {Head(batch)} \cup Dispatched(Tail(batch), set \cup {Head(batch)})
         ELSE Dispatched(Tail(batch), set)

\* The result of a run of a task up to its next await: the task record,
\* whether the call returned, and the hashes it dispatched.
Result(r, fin, add) == [r |-> r, fin |-> fin, add |-> add]

\* The order in which the first poll walks its window.
BootstrapBlocks(h) == <<h, h - 1, h - 2>>

\* The blocks of the gap: for (blockNum = last + 1; blockNum <= current; ++).
RECURSIVE GapBlocks(_, _)
GapBlocks(from, to) ==
    IF from > to THEN <<>> ELSE <<from>> \o GapBlocks(from + 1, to)

\* `if (blockNum < 0) continue`
SkipNegative(todo) == SelectSeq(todo, LAMBDA b : b >= 0)

\* Top of the loop over the blocks: the next getBlock, or the end of the
\* loop (exhausted, or `break` when the closure is not active).
NextBlock(r) ==
    LET todo == SkipNegative(r.todo)
    IN  IF todo = <<>> \/ ~Active(r)
        THEN Result([r EXCEPT !.todo = todo], TRUE, {})
        ELSE Result([r EXCEPT !.pc = "block", !.todo = todo, !.rest = <<>>,
                              !.fetched = Append(@, Head(todo))],
                    FALSE, {})

\* Top of the loop over the batches of a block.
NextBatch(r) ==
    IF r.rest = <<>> \/ ~Active(r)
    THEN NextBlock([r EXCEPT !.todo = Rest(@), !.rest = <<>>])
    ELSE LET add == Dispatched(Head(r.rest), processingTxs)
         IN  IF add = {}
             THEN \* every call returned at once: Promise.all resolves, and
                  \* the closure being active, the pacing delay is awaited
                  Result([r EXCEPT !.pc = "delay", !.rest = Tail(@)], FALSE, {})
             ELSE Result([r EXCEPT !.pc = "batch", !.rest = Tail(@),
                                   !.awaiting = add],
                         FALSE, add)

\* AfterBatch without the pacing delay.
AfterBatch_NoDelay(r) == NextBatch([r EXCEPT !.awaiting = {}])

\* After `await Promise.all(...)` of a batch.
AfterBatch(r) ==
    IF Active(r)
    THEN Result([r EXCEPT !.pc = "delay", !.awaiting = {}], FALSE, {})
    ELSE NextBatch([r EXCEPT !.awaiting = {}])

\* After the head block number is known (lines 123-190).
AfterHead(r, h) ==
    IF ~r.live
    THEN \* the closure was cleaned up: whichever loop is entered breaks
         \* before any fetch
         Result([r EXCEPT !.head = h], TRUE, {})
    ELSE IF lastBlockNumber = Null
    THEN NextBlock([r EXCEPT !.mode = "boot", !.head = h,
                             !.todo = BootstrapBlocks(h)])
    ELSE IF h > lastBlockNumber
    THEN NextBlock([r EXCEPT !.mode = "gap", !.head = h,
                             !.from = lastBlockNumber,
                             !.todo = GapBlocks(lastBlockNumber + 1, h)])
    ELSE Result([r EXCEPT !.mode = "noop", !.head = h,
                          !.from = lastBlockNumber], TRUE, {})

\* -------------------------------------------------------------- actions

TypeOK ==
    /\ isPaused \in BOOLEAN /\ isLoading \in BOOLEAN
    /\ error \in {NoError, ErrMsg}
    /\ processingTxs \subseteq Hashes
    /\ inflight \in [Hashes -> Nat]
    /\ lastBlockNumber \in {Null} \cup 0..MaxHead
    /\ clock \in 0..MaxTime
    /\ Len(tasks) <= Cardinality(Calls)
    /\ \A t \in 1..Len(tasks) : tasks[t].pc \in {"head", "block", "batch", "delay"}

\* The component mounted and its effect ran once: the first call of
\* pollForNewBlocks awaits the head block.
Mounted ==
    /\ transactions = <<>>
    /\ pausedTransactions = <<>>
    /\ isPaused = FALSE
    /\ isLoading = TRUE
    /\ error = NoError
    /\ processingTxs = {}
    /\ inflight = [h \in Hashes |-> 0]
    /\ effActive = TRUE
    /\ effLoading = TRUE
    /\ effDirty = FALSE
    /\ lastBlockNumber = Null
    /\ isPageVisible = TRUE
    /\ docHidden = FALSE
    /\ tasks = <<NewTask(TRUE)>>
    /\ clock = 0
    /\ hOp = "init" /\ hPre = <<>> /\ hArg = "" /\ hFrozen = <<>>
    /\ hFresh = {} /\ hClean = TRUE

Init ==
    /\ Mounted
    /\ arg = <<>> /\ out = Nothing

\* The cleanup of the effect: isSubscribed = false for every call of the
\* closure, the interval cleared. The locals of a call whose closure is
\* cleaned up decide nothing any more: at whichever await it resumes, every
\* loop breaks at once and the call runs to its end.
Cleanup(tk) ==
    [t \in 1..Len(tk) |-> [Blank EXCEPT !.pc = tk[t].pc, !.ld = tk[t].ld,
                                        !.awaiting = tk[t].awaiting]]

\* if (isLoading) setIsLoading(false), with the closure's isLoading.
\* Mutant: a call of pollForNewBlocks never clears the loading flag.
SetLoadingDone_Never(r) == UNCHANGED <<isLoading, effDirty>>

SetLoadingDone(r) ==
    IF r.ld /\ isLoading
    THEN isLoading' = FALSE /\ effDirty' = TRUE
    ELSE UNCHANGED <<isLoading, effDirty>>

\* The state after task t ran up to its next await with result res, the
\* in-flight set and counts before its dispatches being proc and infl.
\* Mutant: a call of processTransaction that finds its hash in the set and
\* returns early deletes the hash on its way out (the guard inside the try).
Apply_RejectedCallDeletes(t, res, tk, proc, infl) ==
    /\ LET all == Batches(BlockTxs(Head(res.r.todo)))
           rej == IF ~res.fin /\ res.r.pc \in {"batch", "delay"}
                              /\ tk[t].pc \in {"block", "delay"}
                  THEN SeqToSet(all[Len(all) - Len(res.r.rest)]) \ res.add
                  ELSE {}
       IN  processingTxs' = (proc \ rej) \cup res.add
    /\ inflight' = [h \in Hashes |-> IF h \in res.add THEN infl[h] + 1 ELSE infl[h]]
    /\ IF res.fin
       THEN /\ tasks' = Remove(tk, t)
            /\ lastBlockNumber' = IF res.r.live THEN res.r.head ELSE lastBlockNumber
            /\ SetLoadingDone(res.r)
       ELSE /\ tasks' = [tk EXCEPT ![t] = res.r]
            /\ UNCHANGED <<lastBlockNumber, isLoading, effDirty>>

Apply(t, res, tk, proc, infl) ==
    /\ processingTxs' = proc \cup res.add
    /\ inflight' = [h \in Hashes |-> IF h \in res.add THEN infl[h] + 1 ELSE infl[h]]
    /\ IF res.fin
       THEN \* lastBlockNumber = currentBlockNumber; if (isLoading) ...
            /\ tasks' = Remove(tk, t)
            /\ lastBlockNumber' = IF res.r.live THEN res.r.head ELSE lastBlockNumber
            /\ SetLoadingDone(res.r)
       ELSE /\ tasks' = [tk EXCEPT ![t] = res.r]
            /\ UNCHANGED <<lastBlockNumber, isLoading, effDirty>>

\* setInterval callback: if (isPageVisible && !isPaused) pollForNewBlocks()
\* Mutant: the interval stops calling pollForNewBlocks once an error is shown.
TimerTick_StopsOnError ==
    /\ error = NoError
    /\ effActive /\ isPageVisible
    /\ HasFreeSlot
    /\ tasks' = Append(tasks, NewTask(effLoading))
    /\ error' = NoError
    /\ UNCHANGED <<transactions, pausedTransactions, isPaused, isLoading,
                   processingTxs, inflight, effActive, effLoading, effDirty,
                   lastBlockNumber, isPageVisible, docHidden, clock, hist, pure>>

TimerTick ==
    /\ effActive /\ isPageVisible
    /\ HasFreeSlot
    /\ tasks' = Append(tasks, NewTask(effLoading))
    /\ error' = NoError
    /\ UNCHANGED <<transactions, pausedTransactions, isPaused, isLoading,
                   processingTxs, inflight, effActive, effLoading, effDirty,
                   lastBlockNumber, isPageVisible, docHidden, clock, hist, pure>>

\* HeadFail forgetting the cursor.
HeadFail_ResetsCursor(t) ==
    /\ tasks[t].pc = "head"
    /\ error' = ErrMsg
    /\ tasks' = Remove(tasks, t)
    /\ SetLoadingDone(tasks[t])
    /\ lastBlockNumber' = Null
    /\ UNCHANGED <<transactions, pausedTransactions, isPaused, processingTxs,
                   inflight, effActive, effLoading,
                   isPageVisible, docHidden, clock, hist, pure>>

\* getBlock("latest") threw: the outer catch.
HeadFail(t) ==
    /\ tasks[t].pc = "head"
    /\ error' = ErrMsg
    /\ tasks' = Remove(tasks, t)
    /\ SetLoadingDone(tasks[t])
    /\ UNCHANGED <<transactions, pausedTransactions, isPaused, processingTxs,
                   inflight, effActive, effLoading, lastBlockNumber,
                   isPageVisible, docHidden, clock, hist, pure>>

\* getBlock("latest") returned nothing, or a block without a number.
HeadEmpty(t) ==
    /\ tasks[t].pc = "head"
    /\ tasks' = Remove(tasks, t)
    /\ SetLoadingDone(tasks[t])
    /\ UNCHANGED <<transactions, pausedTransactions, isPaused, error,
                   processingTxs, inflight, effActive, effLoading,
                   lastBlockNumber, isPageVisible, docHidden, clock, hist, pure>>

\* getBlock("latest") returned head block h.
HeadOk(t, h) ==
    /\ tasks[t].pc = "head"
    /\ Apply(t, AfterHead(tasks[t], h), tasks, processingTxs, inflight)
    /\ UNCHANGED <<transactions, pausedTransactions, isPaused, error,
                   effActive, effLoading, isPageVisible, docHidden, clock, hist, pure>>

\* BlockSkip with the try/catch around the loop: a failed fetch ends the walk.
BlockSkip_Abort(t) ==
    /\ tasks[t].pc = "block"
    /\ Apply(t, Result(tasks[t], TRUE, {}), tasks, processingTxs, inflight)
    /\ UNCHANGED <<transactions, pausedTransactions, isPaused, error,
                   effActive, effLoading, isPageVisible, docHidden, clock, hist, pure>>

\* getBlock(blockNum) threw, or returned no block or no transactions.
BlockSkip(t) ==
    /\ tasks[t].pc = "block"
    /\ Apply(t, NextBlock([tasks[t] EXCEPT !.todo = Rest(@),
                                            !.skipped = @ \cup SeqToSet(Take(tasks[t].todo, 1))]),
             tasks, processingTxs, inflight)
    /\ UNCHANGED <<transactions, pausedTransactions, isPaused, error,
                   effActive, effLoading, isPageVisible, docHidden, clock, hist, pure>>

\* getBlock(blockNum) returned the block with its transactions.
BlockOk(t) ==
    /\ tasks[t].pc = "block"
    /\ tasks[t].live
    /\ BlockTxs(Head(tasks[t].todo)) # <<>>
    /\ Apply(t, NextBatch([tasks[t] EXCEPT !.rest = Batches(BlockTxs(Head(tasks[t].todo)))]),
             tasks, processingTxs, inflight)
    /\ UNCHANGED <<transactions, pausedTransactions, isPaused, error,
                   effActive, effLoading, isPageVisible, docHidden, clock, hist, pure>>

\* The 100 ms pacing timer fired.
DelayDone(t) ==
    /\ tasks[t].pc = "delay"
    /\ Apply(t, NextBatch(tasks[t]), tasks, processingTxs, inflight)
    /\ UNCHANGED <<transactions, pausedTransactions, isPaused, error,
                   effActive, effLoading, isPageVisible, docHidden, clock, hist, pure>>

\* What a fetch of processTransaction comes back with: the object, null
\* (not found), or an exception (callAlchemy threw).
FetchResults == {"found", "empty", "throw"}

\* Enriched requiring only one of the two objects.
Enriched_EitherFound(tx, receipt) == tx = "found" \/ receipt = "found"

\* Promise.all of the pair did not reject and `if (!tx || !receipt) return`
\* did not return: the record is built and inserted.
Enriched(tx, receipt) == tx = "found" /\ receipt = "found"

\* EnrichDone leaving the hash in the in-flight set when nothing was inserted.
EnrichDone_NoFinally(h, ok) ==
    /\ inflight[h] > 0
    /\ transactions' = IF ok THEN Upsert(transactions, [hash |-> h, ts |-> clock])
                       ELSE transactions
    /\ LET proc == IF ok THEN processingTxs \ {h} ELSE processingTxs
           infl == [inflight EXCEPT ![h] = @ - 1]
           tk   == [t \in 1..Len(tasks) |-> [tasks[t] EXCEPT !.awaiting = @ \ {h}]]
           done == {t \in 1..Len(tasks) : tasks[t].pc = "batch" /\ tasks[t].awaiting = {h}}
       IN  IF done = {}
           THEN /\ tasks' = tk /\ processingTxs' = proc /\ inflight' = infl
                /\ UNCHANGED <<lastBlockNumber, isLoading, effDirty>>
           ELSE LET t == CHOOSE u \in done : TRUE
                IN  Apply(t, AfterBatch(tk[t]), tk, proc, infl)
    /\ UNCHANGED <<pausedTransactions, isPaused, error, effActive, effLoading,
                   isPageVisible, docHidden, clock, hist, pure>>

\* EnrichDone with a failure rejecting the Promise.all of the batch: the
\* catch of the block loop takes the call to its next block.
EnrichDone_Raises(h, ok) ==
    /\ inflight[h] > 0
    /\ transactions' = IF ok THEN Upsert(transactions, [hash |-> h, ts |-> clock])
                       ELSE transactions
    /\ LET proc == processingTxs \ {h}
           infl == [inflight EXCEPT ![h] = @ - 1]
           tk   == [t \in 1..Len(tasks) |-> [tasks[t] EXCEPT !.awaiting = @ \ {h}]]
           done == {t \in 1..Len(tasks) : tasks[t].pc = "batch" /\ h \in tasks[t].awaiting
                                         /\ (ok => tasks[t].awaiting = {h})}
       IN  IF done = {}
           THEN /\ tasks' = tk /\ processingTxs' = proc /\ inflight' = infl
                /\ UNCHANGED <<lastBlockNumber, isLoading, effDirty>>
           ELSE LET t == CHOOSE u \in done : TRUE
                IN  Apply(t, IF ok THEN AfterBatch(tk[t])
                             ELSE NextBlock([tk[t] EXCEPT !.todo = Rest(@), !.rest = <<>>,
                                                          !.awaiting = {}]),
                          tk, proc, infl)
    /\ UNCHANGED <<pausedTransactions, isPaused, error, effActive, effLoading,
                   isPageVisible, docHidden, clock, hist, pure>>

\* The fetch pair of a processTransaction(h) settled: with ok, both the
\* transaction and the receipt are there and the record is inserted;
\* otherwise one is missing or a fetch threw. Then `finally`, and the
\* Promise.all of the batch the call belongs to resolves if it was the last.
EnrichDone(h, ok) ==
    /\ inflight[h] > 0
    /\ transactions' = IF ok THEN Upsert(transactions, [hash |-> h, ts |-> clock])
                       ELSE transactions
    /\ LET proc == processingTxs \ {h}
           infl == [inflight EXCEPT ![h] = @ - 1]
           tk   == [t \in 1..Len(tasks) |-> [tasks[t] EXCEPT !.awaiting = @ \ {h}]]
           done == {t \in 1..Len(tasks) : tasks[t].pc = "batch" /\ tasks[t].awaiting = {h}}
       IN  IF done = {}
           THEN /\ tasks' = tk /\ processingTxs' = proc /\ inflight' = infl
                /\ UNCHANGED <<lastBlockNumber, isLoading, effDirty>>
           ELSE LET t == CHOOSE u \in done : TRUE
                IN  Apply(t, AfterBatch(tk[t]), tk, proc, infl)
    /\ UNCHANGED <<pausedTransactions, isPaused, error, effActive, effLoading,
                   isPageVisible, docHidden, clock, hist, pure>>

\* The fetch pair of processTransaction(h) came back with tx and receipt.
EnrichSettled(h, tx, receipt) == EnrichDone(h, Enriched(tx, receipt))

\* Whether a record is inserted, for every pair of results.
Outcomes == {Enriched(tx, receipt) : tx, receipt \in FetchResults}

\* The effect body of lines 92-206 run on a commit: the closure's variables
\* and the first call of pollForNewBlocks.
RunEffect(tk) ==
    /\ effActive' = TRUE
    /\ effLoading' = isLoading
    /\ lastBlockNumber' = Null
    /\ isPageVisible' = TRUE
    /\ tasks' = Append(tk, NewTask(isLoading))
    /\ error' = NoError

\* React commits the render that follows setIsLoading(false): the effect's
\* dependency changed, so its cleanup runs and the effect runs again.
Commit ==
    /\ effDirty
    /\ effDirty' = FALSE
    /\ IF isPaused
       THEN \* `if (isPaused) return`
            UNCHANGED <<effActive, effLoading, lastBlockNumber, isPageVisible,
                        tasks, error>>
       ELSE HasFreeSlot /\ RunEffect(Cleanup(tasks))
    /\ UNCHANGED <<transactions, pausedTransactions, isPaused, isLoading,
                   processingTxs, inflight, docHidden, clock, hist, pure>>

\* The states handlePauseToggle sets.
ToggleTransactions ==
    IF isPaused THEN ThawMerge(pausedTransactions, transactions) ELSE transactions

TogglePaused ==
    IF isPaused THEN pausedTransactions ELSE transactions

\* A click on the pause button, and the commit that follows it.
HandlePauseToggle ==
    /\ transactions' = ToggleTransactions
    /\ pausedTransactions' = TogglePaused
    /\ isPaused' = ~isPaused
    /\ effDirty' = FALSE
    /\ IF isPaused
       THEN HasFreeSlot /\ RunEffect(tasks)
       ELSE /\ tasks' = Cleanup(tasks)
            /\ effActive' = FALSE
            /\ UNCHANGED <<effLoading, lastBlockNumber, isPageVisible, error>>
    /\ UNCHANGED <<isLoading, processingTxs, inflight, docHidden, clock, hist, pure>>

\* The list the component renders: the rows are read from `transactions`,
\* paused or not.
Displayed == transactions

\* visibilitychange: the listener of the current closure, if any.
VisibilityChange ==
    /\ docHidden' = ~docHidden
    /\ isPageVisible' = IF effActive THEN docHidden ELSE isPageVisible
    /\ UNCHANGED <<transactions, pausedTransactions, isPaused, isLoading, error,
                   processingTxs, inflight, effActive, effLoading, effDirty,
                   lastBlockNumber, tasks, clock, hist, pure>>

\* Time passes.
Advance ==
    /\ clock < MaxTime
    /\ clock' = clock + 1
    /\ UNCHANGED <<transactions, pausedTransactions, isPaused, isLoading, error,
                   processingTxs, inflight, effActive, effLoading, effDirty,
                   lastBlockNumber, isPageVisible, docHidden, tasks, hist, pure>>

\* The replies of the RPC gateway, the pacing timer and the page's
\* visibility.
Replies ==
    \/ \E t \in 1..Len(tasks) : HeadFail(t)
    \/ \E t \in 1..Len(tasks) : HeadEmpty(t)
    \/ \E t \in 1..Len(tasks), h \in 0..MaxHead : HeadOk(t, h)
    \/ \E t \in 1..Len(tasks) : BlockSkip(t)
    \/ \E t \in 1..Len(tasks) : BlockOk(t)
    \/ \E t \in 1..Len(tasks) : DelayDone(t)
    \/ \E h \in Hashes, ok \in Outcomes : EnrichDone(h, ok)
    \/ VisibilityChange

\* The poller and the enrichment.
Poll ==
    \/ TimerTick
    \/ Commit
    \/ Replies

Next ==
    \/ Poll
    \/ HandlePauseToggle
    \/ Advance

\* The component with all of its events.
Spec == Init /\ [][Next]_vars

\* The feed left running: overlapping polls, no click on the pause button,
\* all records produced in the same millisecond.
SpecLive == Init /\ [][Poll]_vars

\* At most one call of pollForNewBlocks is in flight.
OneCall == Len(tasks) <= 1

\* The feed with the pause button, every call of pollForNewBlocks returning
\* before the next one starts.
Solo ==
    \/ TimerTick /\ OneCall'
    \/ Commit /\ OneCall'
    \/ HandlePauseToggle /\ OneCall'
    \/ Replies
    \/ Advance

SpecSolo == Init /\ [][Solo]_vars

\* ------------------------------------------------ the buffer on its own

\* setTransactions(prev => ...) of processTransaction with a record for h.
BufUpsert(h) ==
    LET newTx == [hash |-> h, ts |-> clock]
    IN  /\ transactions' = Upsert(transactions, newTx)
        /\ hOp' = "upsert" /\ hPre' = transactions /\ hArg' = h
        /\ hFresh' = IF isPaused THEN hFresh \cup {newTx} ELSE hFresh
        /\ hClean' = IF isPaused
                     THEN /\ hClean
                          /\ h \notin {x.hash : x \in hFresh}
                          /\ h \notin HashesOf(hFrozen)
                     ELSE hClean
        /\ UNCHANGED <<pausedTransactions, isPaused, isLoading, error,
                       processingTxs, inflight, effActive, effLoading, effDirty,
                       lastBlockNumber, isPageVisible, docHidden, tasks, clock,
                       hFrozen, pure>>

\* handlePauseToggle, the effect left aside.
BufToggle ==
    /\ transactions' = ToggleTransactions
    /\ pausedTransactions' = TogglePaused
    /\ isPaused' = ~isPaused
    /\ hPre' = transactions /\ hArg' = ""
    /\ IF isPaused
       THEN hOp' = "thaw" /\ UNCHANGED <<hFrozen, hFresh, hClean>>
       ELSE hOp' = "freeze" /\ hFrozen' = transactions /\ hFresh' = {}
            /\ hClean' = TRUE
    /\ UNCHANGED <<isLoading, error, processingTxs, inflight, effActive,
                   effLoading, effDirty, lastBlockNumber, isPageVisible,
                   docHidden, tasks, clock, pure>>

BufAdvance ==
    /\ clock < MaxTime
    /\ clock' = clock + 1
    /\ hOp' = "advance"
    /\ UNCHANGED <<transactions, pausedTransactions, isPaused, isLoading, error,
                   processingTxs, inflight, effActive, effLoading, effDirty,
                   lastBlockNumber, isPageVisible, docHidden, tasks,
                   hPre, hArg, hFrozen, hFresh, hClean, pure>>

BufNext ==
    \/ \E h \in Hashes : BufUpsert(h)
    \/ BufToggle
    \/ BufAdvance

\* The updaters of the buffer applied in every order, to every hash.
SpecBuffer == Init /\ [][BufNext]_vars

\* ------------------------------------------- the gateway without its key

\* ALCHEMY_KEY is not set: the relay answers every request with status 500,
\* callAlchemy throws on `!response.ok`, and so every getBlock("latest")
\* fails.
NoKeyNext ==
    \/ TimerTick
    \/ Commit
    \/ HandlePauseToggle
    \/ \E t \in 1..Len(tasks) : HeadFail(t)
    \/ VisibilityChange
    \/ Advance

SpecNoKey == Init /\ [][NoKeyNext]_vars

\* ------------------------------------------------- the feed kept running

\* The replies of the network to the running calls.
BlockReply == \E t \in 1..Len(tasks) : BlockSkip(t) \/ BlockOk(t)
HeadReply == \E t \in 1..Len(tasks), h \in 0..MaxHead : HeadOk(t, h)
DelayReply == \E t \in 1..Len(tasks) : DelayDone(t)
EnrichReply == \E h \in Hashes, ok \in Outcomes : EnrichDone(h, ok)

\* The feed never paused and never hidden.
RetryNext ==
    \/ TimerTick
    \/ Commit
    \/ \E t \in 1..Len(tasks) : HeadFail(t)
    \/ \E t \in 1..Len(tasks) : HeadEmpty(t)
    \/ HeadReply
    \/ BlockReply
    \/ DelayReply
    \/ EnrichReply

\* setInterval keeps firing, React commits a pending render, every awaited
\* promise and timer settles, and the head fetch succeeds again and again.
RetryFair ==
    /\ WF_vars(TimerTick)
    /\ WF_vars(Commit)
    /\ SF_vars(HeadReply)
    /\ WF_vars(BlockReply)
    /\ WF_vars(DelayReply)
    /\ WF_vars(EnrichReply)

SpecRetry == Init /\ [][RetryNext]_vars /\ RetryFair

\* --------------------------------------------- the batching on its own

\* The state of the component, the history left aside.
prog == <<transactions, pausedTransactions, isPaused, isLoading, error,
          processingTxs, inflight, effActive, effLoading, effDirty,
          lastBlockNumber, isPageVisible, docHidden, tasks, clock>>

\* block.transactions of any block: up to two full batches and one hash.
MaxTxs == 2 * MAX_CONCURRENT_PROCESSING + 1

TxLists == UNION {[1..n -> Hashes] : n \in 0..MaxTxs}

InitBatches ==
    /\ Mounted
    /\ arg \in TxLists /\ out = Nothing

\* The loop of lines 137-140 (and 170-173) on block.transactions = arg.
MakeBatches ==
    /\ out = Nothing
    /\ out' = [fn |-> "txBatches", val |-> Batches(arg)]
    /\ UNCHANGED <<prog, hist, arg>>

SpecBatches == InitBatches /\ [][MakeBatches]_vars

\* ------------------------------------- the derived metrics on their own

\* A field of the JSON object the gateway returns: missing, a hex quantity
\* string ("0x0", "0x1", ...) or a number; n is the quantity it denotes.
JsValues ==
    {[kind |-> "undefined", n |-> 0]}
       \cup [kind : {"string", "number"}, n : 0..MaxQty]

\* The condition of `a && b ? ... : null`: undefined and the number 0 are
\* falsy, a quantity string is not empty and so truthy, "0x0" included.
Truthy(v) ==
    CASE v.kind = "undefined" -> FALSE
      [] v.kind = "string"    -> TRUE
      [] v.kind = "number"    -> v.n # 0

\* Number(v) of a quantity string or a number.
Number(v) == v.n

\* A value of `number | null`: null, NaN, an infinity, or the fraction
\* num/den.
NullMetric == [kind |-> "null", num |-> 0, den |-> 1]

Finite(num, den) == [kind |-> "finite", num |-> num, den |-> den]

\* a / b of two integers in floating point.
JsDiv(a, b) ==
    IF b # 0 THEN Finite(a, b)
    ELSE IF a = 0 THEN [kind |-> "NaN", num |-> 0, den |-> 1]
    ELSE IF a > 0 THEN [kind |-> "Infinity", num |-> 0, den |-> 1]
    ELSE [kind |-> "-Infinity", num |-> 0, den |-> 1]

\* x * k for an integer k > 0.
JsTimes(x, k) == IF x.kind = "finite" THEN Finite(x.num * k, x.den) ELSE x

\* const slippage = receipt.effectiveGasPrice && tx.gasPrice ? ... : null
Slippage(tx, receipt) ==
    IF Truthy(receipt.effectiveGasPrice) /\ Truthy(tx.gasPrice)
    THEN JsTimes(JsDiv(Number(receipt.effectiveGasPrice) - Number(tx.gasPrice),
                       Number(tx.gasPrice)),
                 100)
    ELSE NullMetric

NaN == [kind |-> "NaN", num |-> 0, den |-> 1]

\* const priceImpact = receipt.gasUsed && tx.value ? ... : null; the product
\* with Number(undefined) is NaN.
PriceImpact(tx, receipt) ==
    IF Truthy(receipt.gasUsed) /\ Truthy(tx.value)
    THEN IF receipt.effectiveGasPrice.kind = "undefined"
         THEN NaN
         ELSE JsTimes(JsDiv(Number(receipt.gasUsed) * Number(receipt.effectiveGasPrice),
                            Number(tx.value)),
                      100)
    ELSE NullMetric

\* tx.value.toString() (lines 69, 78) and receipt.effectiveGasPrice.toString()
\* (line 71) throw a TypeError on undefined.
BuildThrows(tx, receipt) ==
    \/ tx.value.kind = "undefined"
    \/ receipt.effectiveGasPrice.kind = "undefined"

\* Lines 58-84 for a pair that is there: the record that is inserted, or the
\* exception that takes the call to its catch, where nothing is inserted.
NewTx(tx, receipt) ==
    IF BuildThrows(tx, receipt)
    THEN [inserted |-> FALSE, slippage |-> NullMetric, priceImpact |-> NullMetric]
    ELSE [inserted |-> TRUE, slippage |-> Slippage(tx, receipt),
          priceImpact |-> PriceImpact(tx, receipt)]

\* The fetched pair of processTransaction, reduced to the fields the
\* metrics are derived from.
FetchedPairs ==
    [tx : [gasPrice : JsValues, value : JsValues],
     receipt : [effectiveGasPrice : JsValues, gasUsed : JsValues]]

InitMetrics ==
    /\ Mounted
    /\ arg \in FetchedPairs /\ out = Nothing

\* Lines 59-60 on the pair [tx, receipt] = arg.
ComputeSlippage ==
    /\ out = Nothing
    /\ out' = [fn |-> "slippage", val |-> Slippage(arg.tx, arg.receipt)]
    /\ UNCHANGED <<prog, hist, arg>>

\* Lines 61-62 on the pair [tx, receipt] = arg.
ComputePriceImpact ==
    /\ out = Nothing
    /\ out' = [fn |-> "priceImpact", val |-> PriceImpact(arg.tx, arg.receipt)]
    /\ UNCHANGED <<prog, hist, arg>>

\* Lines 58-84 on the pair [tx, receipt] = arg.
BuildRecord ==
    /\ out = Nothing
    /\ out' = [fn |-> "newTx", val |-> NewTx(arg.tx, arg.receipt)]
    /\ UNCHANGED <<prog, hist, arg>>

MetricsNext ==
    \/ ComputeSlippage
    \/ ComputePriceImpact
    \/ BuildRecord

SpecMetrics == InitMetrics /\ [][MetricsNext]_vars

\* ------------------------------------------------------------ properties

IsPrefix(s, t) == Len(s) <= Len(t) /\ s = SubSeq(t, 1, Len(s))

SortedDesc(s) == \A i \in 1..(Len(s) - 1) : s[i].ts >= s[i + 1].ts

\* The block numbers of (c, h], ascending.
Range(c, h) == [i \in 1..(h - c) |-> c + i]

LiveCalls == {t \in 1..Len(tasks) : tasks[t].live}

\* Step: call t of pollForNewBlocks returns.
Returns(t) ==
    /\ t \in 1..Len(tasks)
    /\ Len(tasks') = Len(tasks) - 1
    /\ \A u \in 1..Len(tasks') :
          [tasks'[u] EXCEPT !.awaiting = {}]
             = [tasks[IF u < t THEN u ELSE u + 1] EXCEPT !.awaiting = {}]

\* C1: in every reachable state the feed buffer holds at most
\* TRANSACTIONS_PER_PAGE entries and no two of them have the same hash.
C1_BufferBoundedNoDup ==
    /\ Len(transactions) <= TRANSACTIONS_PER_PAGE
    /\ NoDup(transactions)

\* A full buffer after a freeze, upserts during the pause and a thaw.
C1_Witness ==
    /\ ~isPaused
    /\ pausedTransactions # <<>>
    /\ Len(transactions) = TRANSACTIONS_PER_PAGE
    /\ HashesOf(transactions) # HashesOf(pausedTransactions)

\* C3: a hash has at most one processTransaction call past the guard at any
\* time (so at most one transaction/receipt fetch pair outstanding and at
\* most one insertion to come), and the in-flight set holds exactly the
\* hashes with such a call.
C3_OneEnrichPerHash ==
    \A h \in Hashes :
        /\ inflight[h] <= 1
        /\ inflight[h] = 1 <=> h \in processingTxs

\* The batch a call waits for.
CurrentBatch(r) ==
    LET all == Batches(BlockTxs(Head(r.todo)))
    IN  SeqToSet(all[Len(all) - Len(r.rest)])

\* Two calls wait for the same batch of the same block, each for other
\* hashes: one of them called processTransaction for a hash the other had in
\* flight, and was turned away.
C3_Witness ==
    \E t, u \in 1..Len(tasks) :
        /\ t # u
        /\ tasks[t].pc = "batch" /\ tasks[u].pc = "batch"
        /\ tasks[t].live /\ tasks[u].live
        /\ CurrentBatch(tasks[t]) = CurrentBatch(tasks[u])
        /\ tasks[t].awaiting \cap tasks[u].awaiting = {}
        /\ tasks[t].awaiting \cup tasks[u].awaiting = CurrentBatch(tasks[t])

\* C4: at most one call of pollForNewBlocks of the installed closure is in
\* flight at any time.
C4_NoOverlappingTicks == Cardinality(LiveCalls) <= 1

\* C5: the cursor of a closure never decreases.
C5_CursorMonotone ==
    [][(lastBlockNumber # Null /\ lastBlockNumber' # Null)
          => lastBlockNumber' >= lastBlockNumber]_vars

OldestFirst(h) == SkipNegative(<<h - 2, h - 1, h>>)

\* C7: the first poll fetches its window oldest first.
C7_BootstrapOldestFirst ==
    \A t \in 1..Len(tasks) :
        (tasks[t].live /\ tasks[t].mode = "boot")
           => IsPrefix(tasks[t].fetched, OldestFirst(tasks[t].head))

\* C8: the step in which a head fetch fails sets the error message and
\* leaves the cursor and the buffer as they were.
C8_HeadFailureKeepsFeed ==
    [][\A t \in 1..Len(tasks) :
          HeadFail(t) => /\ error' = ErrMsg
                         /\ lastBlockNumber' = lastBlockNumber
                         /\ transactions' = transactions]_vars

\* The error is shown over a feed with entries and a cursor.
C8_Witness ==
    /\ error = ErrMsg
    /\ lastBlockNumber # Null
    /\ transactions # <<>>

\* C2: an upsert of a hash the buffer holds puts the new record first,
\* leaves the size as it was and the other entries in their order.
C2_ReinsertMovesToFront ==
    (hOp = "upsert" /\ hArg \in HashesOf(hPre))
       => /\ transactions[1] = [hash |-> hArg, ts |-> clock]
          /\ Len(transactions) = Len(hPre)
          /\ Without(transactions, hArg) = Without(hPre, hArg)

\* A hash that was last of a full buffer was upserted again.
C2_Witness ==
    /\ hOp = "upsert"
    /\ Len(hPre) = TRANSACTIONS_PER_PAGE
    /\ hPre[Len(hPre)].hash = hArg

\* C9: a thaw right after a freeze, no upsert in between, leaves the set of
\* hashes of the buffer as it was before the freeze.
C9_FreezeThawKeepsHashes ==
    (hOp = "thaw" /\ hFresh = {})
       => HashesOf(transactions) = HashesOf(hFrozen)

\* A full buffer was frozen and thawed at once.
C9_Witness ==
    /\ hOp = "thaw" /\ hFresh = {}
    /\ Len(hFrozen) = TRANSACTIONS_PER_PAGE

\* The records the thaw merges: those before the freeze and those of the
\* upserts during it.
Merged == SeqToSet(hFrozen) \cup hFresh

\* C10: after a freeze, upserts of distinct hashes that were not in the
\* buffer, and a thaw, the buffer holds the records of the buffer before the
\* freeze and the new ones, all of them or else TRANSACTIONS_PER_PAGE of
\* them none older than one left out, newest first.
C10_ThawMergesNewestFirst ==
    (hOp = "thaw" /\ hClean)
       => /\ SeqToSet(transactions) \subseteq Merged
          /\ Len(transactions) = Min(TRANSACTIONS_PER_PAGE, Cardinality(Merged))
          /\ NoDup(transactions)
          /\ SortedDesc(transactions)
          /\ \A x \in Merged \ SeqToSet(transactions) :
                \A i \in 1..Len(transactions) : x.ts <= transactions[i].ts

\* Two new hashes came in during the pause of a buffer with entries, at
\* different times, and the merge had to drop one.
C10_Witness ==
    /\ hOp = "thaw" /\ hClean
    /\ hFrozen # <<>>
    /\ Cardinality(hFresh) >= 2
    /\ Cardinality({x.ts : x \in Merged}) >= 2
    /\ Cardinality(Merged) > TRANSACTIONS_PER_PAGE

\* C11: after a thaw, an entry of the buffer whose hash was in the live
\* buffer is the live buffer's record, with the live record's timestamp,
\* whether or not the snapshot had a record of that hash.
C11_LiveRecordWins ==
    hOp = "thaw"
       => \A i \in 1..Len(transactions) :
             transactions[i].hash \in HashesOf(hPre)
                => transactions[i] \in SeqToSet(hPre)

\* A hash of the snapshot was upserted again during the pause, at a later
\* time, and the thaw kept it.
C11_Witness ==
    /\ hOp = "thaw"
    /\ \E i \in 1..Len(hFrozen), j \in 1..Len(hPre) :
          /\ hFrozen[i].hash = hPre[j].hash
          /\ hFrozen[i].ts < hPre[j].ts
          /\ hPre[j] \in SeqToSet(transactions)

\* C12: while the feed is paused the displayed list is the snapshot taken
\* when the pause began.
C12_PausedViewIsSnapshot ==
    isPaused => Displayed = pausedTransactions

\* C13: a snapshot holds contents only while the feed is paused; after a
\* resume nothing of it remains.
C13_SnapshotOnlyWhilePaused ==
    ~isPaused => pausedTransactions = <<>>

\* The concatenation of a list of lists.
RECURSIVE Flatten(_)
Flatten(ss) == IF ss = <<>> THEN <<>> ELSE Head(ss) \o Flatten(Tail(ss))

\* C14: the batches of a list of hashes are slices of it that, put one after
\* the other, give the list back; each has MAX_CONCURRENT_PROCESSING hashes,
\* except the last, which has at least one and at most that many.
C14_BatchesPartition ==
    out.fn = "txBatches"
       => /\ Flatten(out.val) = arg
          /\ \A k \in 1..(Len(out.val) - 1) :
                Len(out.val[k]) = MAX_CONCURRENT_PROCESSING
          /\ out.val # <<>>
                => /\ Len(out.val[Len(out.val)]) >= 1
                   /\ Len(out.val[Len(out.val)]) <= MAX_CONCURRENT_PROCESSING

\* A list one hash longer than a batch gave a full batch and a batch of one.
C14_Witness ==
    /\ out.fn = "txBatches"
    /\ Len(arg) = MAX_CONCURRENT_PROCESSING + 1
    /\ Len(out.val) = 2
    /\ Len(out.val[2]) = 1

\* Step: call t of pollForNewBlocks dispatches calls of processTransaction.
Dispatches(t) ==
    /\ t \in 1..Len(tasks)
    /\ Len(tasks') = Len(tasks)
    /\ tasks'[t].awaiting \ tasks[t].awaiting # {}

\* The batches of the block call r is at.
BatchesOf(r) == Batches(BlockTxs(Head(r.todo)))

\* C15: a call of pollForNewBlocks dispatches the hashes of a batch only in
\* the step in which the block arrived, and then it is the block's first
\* batch, or in the step in which the pacing timer fired, and then every
\* call of processTransaction it waited for in the batch before has settled.
C15_NextBatchAfterSettleAndDelay ==
    [][\A t \in 1..Len(tasks) :
          Dispatches(t)
             => /\ tasks[t].awaiting = {}
                /\ \/ tasks[t].pc = "delay"
                   \/ /\ tasks[t].pc = "block"
                      /\ Len(tasks'[t].rest) = Len(BatchesOf(tasks'[t])) - 1]_vars

\* The only call in flight waits for the second batch of a block, a record
\* of the first batch being in the buffer.
C15_Witness ==
    /\ Len(tasks) = 1
    /\ tasks[1].live /\ tasks[1].pc = "batch"
    /\ tasks[1].rest = <<>>
    /\ tasks[1].awaiting = {"c"}
    /\ "a" \in HashesOf(transactions)

\* C16: at most MAX_CONCURRENT_PROCESSING calls of processTransaction are in
\* flight at any time.
C16_InFlightAtMostBatch ==
    Cardinality(processingTxs) <= MAX_CONCURRENT_PROCESSING

\* No call of processTransaction is past the guard.
NoneRunning == \A h \in Hashes : inflight[h] = 0

\* Step: a call of processTransaction(h) that was past the guard completes.
Completes(h) == inflight'[h] < inflight[h]

\* C17: the step in which a call of processTransaction(h) completes, its
\* fetches having come back found, empty or with an exception, takes h out
\* of the in-flight set; and the set is empty whenever no call of
\* processTransaction is running.
C17_InFlightRemovedOnCompletion ==
    /\ [](NoneRunning => processingTxs = {})
    /\ [][\A h \in Hashes : Completes(h) => h \notin processingTxs']_vars

\* The first batch of a block settled, one hash inserted and the other not,
\* and the in-flight set is empty again.
C17_Witness ==
    /\ Len(tasks) = 1
    /\ tasks[1].live /\ tasks[1].pc = "delay" /\ tasks[1].rest = <<<<"c">>>>
    /\ HashesOf(transactions) = {"a"}
    /\ processingTxs = {}

\* Step: the fetches of a call of processTransaction(h) come back, and not
\* both with an object.
Fails(h) ==
    /\ Completes(h)
    /\ \E tx, receipt \in FetchResults :
          ~Enriched(tx, receipt) /\ EnrichSettled(h, tx, receipt)

\* Step: the fetches of a call of processTransaction(h) come back, both with
\* an object.
Succeeds(h) == Completes(h) /\ EnrichSettled(h, "found", "found")

\* C18: a call of processTransaction(h) whose fetch failed inserts nothing
\* and raises nothing to the call of pollForNewBlocks that waits for it: no
\* error is set, the calls for the other hashes stay in flight, the batch
\* goes on waiting for them or, if h was the last, settles (the call goes to
\* its pacing delay or ends); and a call whose fetches succeed inserts its
\* record whatever became of the others.
C18_FailureIsolated ==
    [][\A h \in Hashes :
          /\ Fails(h)
                => /\ transactions' = transactions
                   /\ error' = error
                   /\ \A g \in Hashes \ {h} : inflight'[g] = inflight[g]
                   /\ \A t \in 1..Len(tasks) :
                         (tasks[t].pc = "batch" /\ h \in tasks[t].awaiting)
                            => IF tasks[t].awaiting = {h}
                               THEN \/ Len(tasks') = Len(tasks) - 1
                                    \/ tasks'[t].pc = "delay"
                               ELSE /\ Len(tasks') = Len(tasks)
                                    /\ tasks'[t] = [tasks[t] EXCEPT !.awaiting = @ \ {h}]
          /\ Succeeds(h)
                => /\ transactions' # <<>>
                   /\ transactions'[1].hash = h]_vars

\* The first batch of a block settled: the fetch of one hash failed and the
\* record of the other is in the buffer, the call being at its pacing delay.
C18_Witness ==
    /\ Len(tasks) = 1
    /\ tasks[1].live /\ tasks[1].pc = "delay" /\ tasks[1].rest = <<<<"c">>>>
    /\ HashesOf(transactions) = {"b"}
    /\ error = NoError

\* C19: when the transaction or the receipt of processTransaction(h) comes
\* back empty (and neither fetch threw), the buffer is left as it was and h
\* leaves the in-flight set.
C19_EmptyFetchProducesNothing ==
    [][\A h \in Hashes :
          (/\ Completes(h)
           /\ \E tx, receipt \in {"found", "empty"} :
                 /\ tx = "empty" \/ receipt = "empty"
                 /\ EnrichSettled(h, tx, receipt))
             => /\ transactions' = transactions
                /\ h \notin processingTxs']_vars

\* One hash of the first batch produced nothing and left the in-flight set;
\* the call still waits for the other.
C19_Witness ==
    /\ Len(tasks) = 1
    /\ tasks[1].live /\ tasks[1].pc = "batch" /\ tasks[1].rest = <<<<"c">>>>
    /\ tasks[1].awaiting = {"b"}
    /\ processingTxs = {"b"}
    /\ transactions = <<>>

\* The field is there and denotes zero.
IsZero(v) == v.kind # "undefined" /\ v.n = 0

\* C20: the slippage of a transaction whose gasPrice is zero, as the string
\* "0x0" or as the number 0, is null.
C20_ZeroGasPriceNoSlippage ==
    (out.fn = "slippage" /\ IsZero(arg.tx.gasPrice))
       => out.val = NullMetric

\* C21: the priceImpact of a transaction whose value is zero, as the string
\* "0x0" or as the number 0, is null.
C21_ZeroValueNoPriceImpact ==
    (out.fn = "priceImpact" /\ IsZero(arg.tx.value))
       => out.val = NullMetric

\* The field is missing.
Missing(v) == v.kind = "undefined"

\* C22: a pair that is there, with a value, but without one of its gas
\* fields still gives a record, and the metrics that depend on the missing
\* field are null in it.
C22_MissingGasFieldKeepsRecord ==
    (/\ out.fn = "newTx"
     /\ ~Missing(arg.tx.value)
     /\ \/ Missing(arg.tx.gasPrice)
        \/ Missing(arg.receipt.effectiveGasPrice)
        \/ Missing(arg.receipt.gasUsed))
       => /\ out.val.inserted
          /\ Missing(arg.tx.gasPrice) => out.val.slippage = NullMetric
          /\ Missing(arg.receipt.gasUsed) => out.val.priceImpact = NullMetric
          /\ Missing(arg.receipt.effectiveGasPrice)
                => /\ out.val.slippage = NullMetric
                   /\ out.val.priceImpact = NullMetric

\* The call of pollForNewBlocks that dispatched processTransaction(h) belongs
\* to a closure whose cleanup has run (isSubscribed = false).
TornDown(h) ==
    \E t \in 1..Len(tasks) : ~tasks[t].live /\ h \in tasks[t].awaiting

\* C23: a call of processTransaction that was in flight when the cleanup of
\* its effect set isSubscribed = false inserts nothing when it completes.
C23_NoUpsertAfterTeardown ==
    [][\A h \in Hashes :
          (Completes(h) /\ TornDown(h)) => transactions' = transactions]_vars

\* C24: a call of pollForNewBlocks whose closure was cleaned up returns
\* without setting the cursor, the loading flag or the error.
C24_TornDownPollMutatesNothing ==
    [][\A t \in 1..Len(tasks) :
          (~tasks[t].live /\ Returns(t))
             => /\ lastBlockNumber' = lastBlockNumber
                /\ isLoading' = isLoading
                /\ error' = error]_vars

\* C25: the click that pauses the feed leaves the calls of
\* processTransaction in flight as they are, and each of them whose fetches
\* succeed during the pause puts its record first in the live buffer.
C25_PauseKeepsEnrichment ==
    [][/\ (~isPaused /\ isPaused')
            => /\ inflight' = inflight
               /\ processingTxs' = processingTxs
               /\ Len(tasks') = Len(tasks)
               /\ \A t \in 1..Len(tasks) : tasks'[t].awaiting = tasks[t].awaiting
       /\ \A h \in Hashes :
             (isPaused /\ isPaused' /\ Succeeds(h))
                => /\ transactions' # <<>>
                   /\ transactions'[1] = [hash |-> h, ts |-> clock]]_vars

\* The feed is paused, a record that is not in the snapshot has come into
\* the live buffer and another call is still in flight.
C25_Witness ==
    /\ isPaused
    /\ \E i \in 1..Len(transactions) :
          transactions[i].hash \notin HashesOf(pausedTransactions)
    /\ processingTxs # {}

\* Step: a call of pollForNewBlocks passes its guard and queries the head.
QueriesHead == Len(tasks') > Len(tasks)

\* C26: the head is queried and a batch is dispatched only while the feed
\* is not paused and the document is not hidden.
C26_IdleWhilePausedOrHidden ==
    [][(QueriesHead \/ \E t \in 1..Len(tasks) : Dispatches(t))
          => (~isPaused' /\ ~docHidden')]_vars

\* C27: while the feed is not paused the cursor, once set, is not unset.
C27_CursorStaysSet ==
    [][(~isPaused /\ ~isPaused' /\ lastBlockNumber # Null)
          => lastBlockNumber' # Null]_vars

\* Step: call t of the installed closure returns after its head fetch
\* succeeded.
Completed(t) ==
    /\ tasks[t].live
    /\ Returns(t)
    /\ ~HeadFail(t)

\* C28: the error message, once set, is cleared only by a step in which a
\* call of pollForNewBlocks completes after a successful head fetch, and it
\* is absent after every such step.
C28_ErrorUntilNextSuccess ==
    [][/\ (error = ErrMsg /\ error' = NoError)
            => \E t \in 1..Len(tasks) : Completed(t)
       /\ \A t \in 1..Len(tasks) : Completed(t) => error' = NoError]_vars

\* C29: the entries of the feed buffer are in descending order of their
\* timestamps, ties allowed.
C29_BufferNewestFirst == SortedDesc(transactions)

\* After a resume the buffer holds a record that came in during the pause
\* above an older one of the snapshot.
C29_Witness ==
    /\ ~isPaused
    /\ Len(transactions) = 2
    /\ transactions[1].ts > transactions[2].ts
    /\ transactions[2] \in SeqToSet(pausedTransactions)
    /\ transactions[1] \notin SeqToSet(pausedTransactions)

\* The positions of the buffer whose hash the step takes out of it.
Gone == {i \in 1..Len(transactions) :
            transactions[i].hash \notin HashesOf(transactions')}

\* C30: a step takes a hash out of the buffer only when the buffer it
\* leaves is full, and no entry it takes out is newer than one it leaves;
\* an upsert takes out at most the entry in the last position.
C30_EvictionOnlyByCapacity ==
    [][Gone # {}
          => /\ Len(transactions') = TRANSACTIONS_PER_PAGE
             /\ \A i \in Gone, j \in 1..Len(transactions') :
                   transactions[i].ts <= transactions'[j].ts
             /\ isPaused' = isPaused => Gone = {Len(transactions)}]_vars

\* A thaw took an entry out of the live buffer.
C30_Witness ==
    /\ hOp = "thaw"
    /\ \E i \in 1..Len(hPre) : hPre[i].hash \notin HashesOf(transactions)

\* C31: with the key missing, once a head query has failed (the loading flag
\* is off) no call of pollForNewBlocks queries the head again.
C31_NoQueriesWithoutKey ==
    [][~isLoading => ~QueriesHead]_vars

\* C32: whenever a call moves the cursor from c up to h, it has attempted
\* the fetch of every block of (c, h] before, also when the page was hidden
\* while it walked the range.
C32_CursorNamesAttemptedBlocks ==
    [][\A t \in 1..Len(tasks) :
          ( /\ Returns(t) /\ tasks[t].live /\ tasks[t].mode = "gap"
            /\ lastBlockNumber # Null
            /\ lastBlockNumber' > lastBlockNumber )
             => \A b \in (lastBlockNumber + 1)..lastBlockNumber' :
                    b \in SeqToSet(tasks[t].fetched)]_vars

\* C33: in a feed that stays active and whose head fetches succeed again and
\* again, a failed head fetch is followed by a later call that queries the
\* head, and the cursor is eventually set to a fetched head: a failure never
\* stops the polling for good.  (Calls that query the head are made for ever
\* and the cursor is set again and again, hence also after every failure.)
C33_HeadFailureRetried ==
    /\ []<><<QueriesHead>>_vars
    /\ []<>(lastBlockNumber # Null)

\* The head fetch of a call failed before any cursor was set, and the feed is
\* still active.
C33_Witness ==
    /\ error = ErrMsg /\ lastBlockNumber = Null
    /\ effActive /\ isPageVisible /\ ~isPaused

\* C34: a call of processTransaction that returns early because its hash is
\* in the in-flight set leaves the set alone: in every step other than the
\* completion of the task that added h (a step in which a call for h is
\* rejected included) h stays in the set and no second task for h is
\* started, so a further concurrent call is rejected as well.
C34_RejectedCallKeepsEntry ==
    [][\A h \in Hashes :
          (h \in processingTxs /\ ~Completes(h))
             => (h \in processingTxs' /\ inflight'[h] = inflight[h])]_vars

\* Two calls of pollForNewBlocks are at the same batch <<a, b>>: one of them
\* awaits a only and the other b only, so each had one of its two calls of
\* processTransaction rejected, and both hashes are still in the set.
C34_Witness ==
    \E t, u \in 1..Len(tasks) :
        /\ tasks[t].live /\ tasks[u].live
        /\ tasks[t].pc = "batch" /\ tasks[u].pc = "batch"
        /\ CurrentBatch(tasks[t]) = {"a", "b"}
        /\ CurrentBatch(tasks[u]) = {"a", "b"}
        /\ tasks[t].awaiting = {"a"} /\ tasks[u].awaiting = {"b"}
        /\ processingTxs = {"a", "b"}
        /\ inflight["a"] = 1 /\ inflight["b"] = 1

\* C35: the loading flag is true at the start, is cleared by the first call
\* of pollForNewBlocks that returns, whatever its outcome (window walked,
\* empty head, failed head fetch), by nothing else, and is never set again.
C35_LoadingClearedOnce ==
    /\ isLoading = TRUE
    /\ [][/\ (isLoading /\ \E t \in 1..Len(tasks) : Returns(t)) => ~isLoading'
          /\ (isLoading /\ ~isLoading') => \E t \in 1..Len(tasks) : Returns(t)
          /\ ~isLoading => ~isLoading']_vars

\* The first call has returned and cleared the flag, the effect has run
\* again, and a call that captured the cleared flag is under way.
C35_Witness ==
    /\ ~isLoading /\ ~effDirty /\ ~effLoading
    /\ Len(tasks) = 1 /\ tasks[1].live /\ ~tasks[1].ld
    /\ tasks[1].pc = "block"

====
